---- MODULE Spec2Model ----
(***************************************************************************)
(* Products REST backend (express + mongodb driver).                       *)
(*                                                                         *)
(* The repository holds three versions of the same server:                 *)
(*   "A"  src/index.js lines 1-311      blocking connect, allow-listed     *)
(*        update, existence pre-checks, no GET /products/:id route         *)
(*   "B"  src/index.js lines 312-559    lazily connecting, cached client   *)
(*   "C"  src/unnamed/part_000          blocking connect, same handlers    *)
(*        as "B"                                                           *)
(* The variable `variant` says which one is running.                       *)
(*                                                                         *)
(* Values are JavaScript values.  Numbers are kept in tenths (15 is 1.5),  *)
(* strings are sequences of one-character strings, so that Number,         *)
(* parseFloat and parseInt are computed on the characters as the engine    *)
(* does.  The store is reachable throughout: the only store calls that     *)
(* throw, and are answered 500, are an insert under a key that is taken    *)
(* and a $set of _id.                                                      *)
(***************************************************************************)
EXTENDS Integers, Sequences, FiniteSets, TLC

\* ------------------------------------------------------------------------
\* JavaScript values
\* ------------------------------------------------------------------------
Undefined == [t |-> "undefined", n |-> 0, s |-> <<>>]
Null      == [t |-> "null", n |-> 0, s |-> <<>>]
NaN       == [t |-> "nan", n |-> 0, s |-> <<>>]
Date      == [t |-> "date", n |-> 0, s |-> <<>>]
Num(k)    == [t |-> "number", n |-> k, s |-> <<>>]
Str(cs)   == [t |-> "string", n |-> 0, s |-> cs]

Digits == {"0", "1", "2", "3", "4", "5", "6", "7", "8", "9"}

DigitVal == ("0" :> 0) @@ ("1" :> 1) @@ ("2" :> 2) @@ ("3" :> 3) @@ ("4" :> 4)
            @@ ("5" :> 5) @@ ("6" :> 6) @@ ("7" :> 7) @@ ("8" :> 8) @@ ("9" :> 9)

DigitChar == <<"0", "1", "2", "3", "4", "5", "6", "7", "8", "9">>

Abs(k) == IF k < 0 THEN -k ELSE k

\* typeof v === 'number' (NaN included)
IsNumber(v) == v.t \in {"number", "nan"}

\* isNaN(v) for a value that is already a number
IsNaN(v) == v.t = "nan"

\* !v
Falsy(v) ==
    \/ v.t \in {"undefined", "null", "nan"}
    \/ v.t = "number" /\ v.n = 0
    \/ v.t = "string" /\ v.s = <<>>

RECURSIVE SkipWs(_)
SkipWs(cs) == IF cs # <<>> /\ Head(cs) = " " THEN SkipWs(Tail(cs)) ELSE cs

RECURSIVE TrimEnd(_)
TrimEnd(cs) ==
    IF cs # <<>> /\ cs[Len(cs)] = " " THEN TrimEnd(SubSeq(cs, 1, Len(cs) - 1)) ELSE cs

\* String.prototype.trim
Trim(cs) == TrimEnd(SkipWs(cs))

RECURSIVE DigitRun(_)
DigitRun(cs) ==
    IF cs # <<>> /\ Head(cs) \in Digits THEN 1 + DigitRun(Tail(cs)) ELSE 0

RECURSIVE DigitsValue(_)
DigitsValue(cs) ==
    IF cs = <<>> THEN 0
    ELSE DigitsValue(SubSeq(cs, 1, Len(cs) - 1)) * 10 + DigitVal[cs[Len(cs)]]

RECURSIVE NatDigits(_)
NatDigits(k) ==
    IF k < 10 THEN <<DigitChar[k + 1]>>
    ELSE NatDigits(k \div 10) \o <<DigitChar[(k % 10) + 1]>>

\* JsToString of a value (a number in tenths prints with at most one decimal)
JsToString(v) ==
    CASE v.t = "string" -> v.s
      [] v.t = "number" ->
            (IF v.n < 0 THEN <<"-">> ELSE <<>>)
            \o NatDigits(Abs(v.n) \div 10)
            \o (IF Abs(v.n) % 10 = 0 THEN <<>> ELSE <<".", DigitChar[(Abs(v.n) % 10) + 1]>>)
      [] v.t = "nan" -> <<"N", "a", "N">>
      [] v.t = "null" -> <<"n", "u", "l", "l">>
      [] v.t = "date" -> <<"D", "a", "t", "e">>
      [] OTHER -> <<"u", "n", "d", "e", "f", "i", "n", "e", "d">>

\* The longest prefix of cs that is a signed decimal literal:
\* [+-] digits [. digits]  or  [+-] . digits.  len is the number of
\* characters consumed, val the value in tenths (decimals past the first are
\* dropped: the inputs of the model carry at most one).
ScanDecimal(cs) ==
    LET sgn    == IF cs # <<>> /\ Head(cs) \in {"+", "-"} THEN 1 ELSE 0
        neg    == sgn = 1 /\ Head(cs) = "-"
        r      == SubSeq(cs, sgn + 1, Len(cs))
        ni     == DigitRun(r)
        rest   == SubSeq(r, ni + 1, Len(r))
        hasDot == rest # <<>> /\ Head(rest) = "."
        nf     == IF hasDot THEN DigitRun(Tail(rest)) ELSE 0
        ok     == ni > 0 \/ nf > 0
        mag    == DigitsValue(SubSeq(r, 1, ni)) * 10
                    + (IF nf > 0 THEN DigitVal[rest[2]] ELSE 0)
    IN  [ok  |-> ok,
         len |-> IF ok THEN sgn + ni + (IF hasDot THEN 1 + nf ELSE 0) ELSE 0,
         val |-> IF neg THEN -mag ELSE mag]

\* Number(v)
ToNumber(v) ==
    CASE v.t \in {"number", "nan"} -> v
      [] v.t = "null" -> Num(0)
      [] v.t = "string" ->
            LET cs == Trim(v.s)
                d  == ScanDecimal(cs)
            IN  IF cs = <<>> THEN Num(0)
                ELSE IF d.ok /\ d.len = Len(cs) THEN Num(d.val)
                ELSE NaN
      [] OTHER -> NaN

\* parseFloat(v)
ParseFloat(v) ==
    LET d == ScanDecimal(SkipWs(JsToString(v)))
    IN  IF d.ok THEN Num(d.val) ELSE NaN

\* parseInt(v), radix 10
ParseInt(v) ==
    LET cs  == SkipWs(JsToString(v))
        sgn == IF cs # <<>> /\ Head(cs) \in {"+", "-"} THEN 1 ELSE 0
        r   == SubSeq(cs, sgn + 1, Len(cs))
        ni  == DigitRun(r)
        mag == DigitsValue(SubSeq(r, 1, ni)) * 10
    IN  IF ni = 0 THEN NaN
        ELSE Num(IF sgn = 1 /\ Head(cs) = "-" THEN -mag ELSE mag)

\* a || b
OrElse(a, b) == IF Falsy(a) THEN b ELSE a

\* obj[key] of a request body or a document: a missing key reads undefined
Get(obj, key) == IF key \in DOMAIN obj THEN obj[key] ELSE Undefined

\* the object with obj[key] = v added or overwritten
Put(obj, key, v) == [k \in DOMAIN obj \cup {key} |-> IF k = key THEN v ELSE obj[k]]

\* the empty object {}
EmptyObj == [k \in {} |-> Undefined]

\* the keys of obj in insertion order are not needed: Object.keys(obj).length
KeyCount(obj) == Cardinality(DOMAIN obj)

\* a <= 0 on primitives: both sides go through Number, NaN compares false
LeqZero(v) == LET k == ToNumber(v) IN k.t = "number" /\ k.n <= 0

\* ------------------------------------------------------------------------
\* Bounds and inputs
\* ------------------------------------------------------------------------
\* products the store ever holds (ObjectIds it generates: 1..MaxProducts)
MaxProducts == 1
\* requests in flight at a time
NumSlots == 2
\* the per-product count of sold responses stops counting here
MaxTally == 2

Slots == 1..NumSlots

\* req.params.id: 0 is a string that is no ObjectId; 1..MaxProducts are the
\* ids the store generates; MaxProducts + 1 is a well-formed id of no product
FreshId == MaxProducts + 1

Variants == {"A", "B", "C"}

C(x) == Str(<<x>>)

\* ------------------------------------------------------------------------
\* Validation, as each version writes it
\* ------------------------------------------------------------------------
\* ObjectId.isValid(req.params.id)
ObjectIdIsValid(id) == id > 0

\* POST /products of "A": category and model required, Number(x) || 0
CreateCheckA(product) ==
    IF Falsy(Get(product, "category")) \/ Falsy(Get(product, "model"))
    THEN [status |-> 400, doc |-> EmptyObj]
    ELSE [status |-> 201,
          doc |-> ("category" :> Get(product, "category"))
                  @@ ("model" :> Get(product, "model"))
                  @@ ("price" :> OrElse(ToNumber(Get(product, "price")), Num(0)))
                  @@ ("stock" :> OrElse(ToNumber(Get(product, "stock")), Num(0)))
                  @@ ("createdAt" :> Date)]

\* the same check written as !product.stock
StockFalsy(product) == Falsy(Get(product, "stock"))

\* stock is missing from the request: product.stock === undefined
StockMissing(product) == Get(product, "stock") = Undefined

\* POST /products of "B" and "C": name or model, price, stock required;
\* parseFloat / parseInt written back into the request body, which is inserted
CreateCheckBC(product) ==
    IF \/ Falsy(Get(product, "name")) /\ Falsy(Get(product, "model"))
       \/ Falsy(Get(product, "price"))
       \/ StockMissing(product)
    THEN [status |-> 400, doc |-> EmptyObj]
    ELSE LET price == ParseFloat(Get(product, "price"))
             stock == ParseInt(Get(product, "stock"))
         IN  IF IsNaN(price) \/ IsNaN(stock)
             THEN [status |-> 400, doc |-> EmptyObj]
             ELSE [status |-> 201, doc |-> Put(Put(product, "price", price), "stock", stock)]

CreateCheck(v, product) ==
    IF v = "A" THEN CreateCheckA(product) ELSE CreateCheckBC(product)

\* PATCH /products/:id of "A": the allow-list, walked in order; the first
\* bad field answers 400
allowedFields == <<"category", "model", "price", "stock">>

RECURSIVE SanitizeFrom(_, _, _)
SanitizeFrom(updates, i, sanitizedUpdates) ==
    IF i > Len(allowedFields) THEN [status |-> 200, set |-> sanitizedUpdates]
    ELSE LET field == allowedFields[i]
             v     == Get(updates, field)
         IN  IF v = Undefined THEN SanitizeFrom(updates, i + 1, sanitizedUpdates)
             ELSE IF field \in {"price", "stock"}
             THEN LET numValue == ToNumber(v)
                  IN  IF IsNaN(numValue) \/ numValue.n < 0
                      THEN [status |-> 400, set |-> EmptyObj]
                      ELSE SanitizeFrom(updates, i + 1, Put(sanitizedUpdates, field, numValue))
             ELSE IF Falsy(v) \/ v.t # "string" \/ Trim(v.s) = <<>>
                  THEN [status |-> 400, set |-> EmptyObj]
                  ELSE SanitizeFrom(updates, i + 1, Put(sanitizedUpdates, field, Str(Trim(v.s))))

UpdateCheckA(updates) ==
    LET r == SanitizeFrom(updates, 1, EmptyObj)
    IN  IF r.status = 400 THEN r
        ELSE IF KeyCount(r.set) = 0 THEN [status |-> 400, set |-> EmptyObj]
        ELSE [status |-> 200, set |-> Put(r.set, "updatedAt", Date)]

\* PATCH /products/:id of "B" and "C": every key whose value is not
\* undefined, null or '' is kept; price and stock are parsed
UpdateCheckBC(updates) ==
    LET keep == {k \in DOMAIN updates :
                    updates[k] # Undefined /\ updates[k] # Null /\ updates[k] # Str(<<>>)}
        validUpdates == [k \in keep |-> updates[k]]
        price == ParseFloat(Get(validUpdates, "price"))
        stock == ParseInt(Get(validUpdates, "stock"))
    IN  IF KeyCount(validUpdates) = 0 THEN [status |-> 400, set |-> EmptyObj]
        ELSE IF "price" \in keep /\ IsNaN(price) THEN [status |-> 400, set |-> EmptyObj]
        ELSE IF "stock" \in keep /\ IsNaN(stock) THEN [status |-> 400, set |-> EmptyObj]
        ELSE [status |-> 200,
              set |-> [k \in keep |-> IF k = "price" THEN price
                                      ELSE IF k = "stock" THEN stock
                                      ELSE validUpdates[k]]]

UpdateCheck(v, updates) ==
    IF v = "A" THEN UpdateCheckA(updates) ELSE UpdateCheckBC(updates)

\* ------------------------------------------------------------------------
\* The collection (each call is one atomic single-document operation)
\* ------------------------------------------------------------------------
\* findOne({_id}): <<doc>> or <<>> for null
FindOne(st, id) == IF id \in DOMAIN st THEN <<st[id]>> ELSE <<>>

\* {$set: set} applied to a document
SetFields(doc, set) ==
    [k \in DOMAIN doc \cup DOMAIN set |-> IF k \in DOMAIN set THEN set[k] ELSE doc[k]]

\* {$inc: {stock: -1}} applied to a document
IncStock(doc) ==
    Put(doc, "stock", Num((IF "stock" \in DOMAIN doc THEN doc["stock"].n ELSE 0) - 10))

\* updateOne({_id}, {$set: set})
UpdateOneSet(st, id, set) ==
    IF id \in DOMAIN st THEN [st EXCEPT ![id] = SetFields(st[id], set)] ELSE st

\* updateOne({_id}, {$inc: {stock: -1}, $set: set})
UpdateOneInc(st, id, set) ==
    IF id \in DOMAIN st THEN [st EXCEPT ![id] = SetFields(IncStock(st[id]), set)] ELSE st

\* a deleteOne whose filter matches no document
DeleteOneKeeps(st, id) == st

\* deleteOne({_id})
DeleteOne(st, id) == [k \in DOMAIN st \ {id} |-> st[k]]

\* The keys of the collection are the _id values.  n > 0 is the n-th ObjectId
\* the driver generates; a string _id, which equals no ObjectId, is a key
\* below 0: the string of the digits of n is -n.
KeyOf(v) == 0 - DigitsValue(v.s)

\* the document without its _id field
WithoutId(doc) == [k \in DOMAIN doc \ {"_id"} |-> doc[k]]

\* insertOne(doc) under the key id
InsertOne(st, id, doc) == [k \in DOMAIN st \cup {id} |-> IF k = id THEN doc ELSE st[k]]

\* ------------------------------------------------------------------------
\* Request bodies the clients send
\* ------------------------------------------------------------------------
\* the JSON object with the keys of f whose value is not undefined
Obj(f) == [k \in {x \in DOMAIN f : f[x] # Undefined} |-> f[k]]

Product(model, price, stock) ==
    Obj([category |-> C("c"), model |-> model, price |-> price, stock |-> stock])

CreatePrices == {Undefined, Str(<<"1", ".", "5">>), C("a"), Num(0)}
CreateStocks == {Undefined, Num(0), C("0"), C("1"), C("a"), Str(<<"-", "1">>)}

CreateBodies ==
    {Product(m, p, s) : m \in {Undefined, C("m")}, p \in CreatePrices, s \in CreateStocks}

UpdatePrices == {Null, Str(<<>>), C("a"), Str(<<"-", "1">>), Str(<<"1", ".", "5">>)}
UpdateStocks == {Null, Str(<<>>), C("a"), Str(<<"-", "1">>), C("1")}

UpdateBodies ==
    {EmptyObj}
    \cup {Obj([price |-> v]) : v \in UpdatePrices}
    \cup {Obj([stock |-> v]) : v \in UpdateStocks}
    \cup {Obj([category |-> v]) : v \in {Str(<<>>), C("c")}}
    \cup {Obj([note |-> v]) : v \in {Str(<<>>), C("x")}}
    \cup {Obj([price |-> Null, stock |-> Str(<<>>)]),
          Obj([price |-> Str(<<"1", ".", "5">>), stock |-> C("1")]),
          Obj([price |-> Str(<<"1", ".", "5">>), note |-> C("x")])}

\* bodies that carry an _id of their own
IdBodies ==
    {Put(Product(C("m"), Str(<<"1", ".", "5">>), C("1")), "_id", C("1"))}
IdUpdates == {("_id" :> C("1")) @@ Obj([price |-> Str(<<"1", ".", "5">>)])}

\* the bodies of the runs in which requests come one at a time
SeqCreateBodies == CreateBodies \cup IdBodies
SeqUpdateBodies == UpdateBodies \cup IdUpdates

\* the bodies of the runs in which requests overlap
FewCreateBodies == {Product(C("m"), Str(<<"1", ".", "5">>), s) : s \in {C("1"), Num(0)}}
FewUpdateBodies == {EmptyObj, Obj([stock |-> C("1")])}

\* ------------------------------------------------------------------------
\* State
\* ------------------------------------------------------------------------
VARIABLES
    variant,       \* which version of the server runs
    store,         \* the products collection: generated id -> document
    nextId,        \* the next ObjectId the store generates
    cachedClient,  \* "B": cachedClient/cachedDb, 0 for null, else the client
    connects,      \* client.connect() calls that completed
    slot,          \* the requests in flight, one per slot
    last,          \* the response sent last, with the request's method and id
    hist           \* per product ever created: creation stock, updated?, sold responses

vars == <<variant, store, nextId, cachedClient, connects, slot, last, hist>>

Idle ==
    [pc |-> "idle", op |-> "none", id |-> 0, body |-> EmptyObj, found |-> <<>>,
     acc |-> {}, existed |-> FALSE]

NoResponse ==
    [op |-> "none", id |-> 0, status |-> 0, msg |-> "", n |-> 0, out |-> <<>>,
     acc |-> {}, existed |-> FALSE]

\* "A" and "C" serve once run() has connected; "B" starts with no client
Init ==
    /\ variant \in Variants
    /\ store = EmptyObj
    /\ nextId = 1
    /\ cachedClient = 0
    /\ connects = IF variant = "B" THEN 0 ELSE 1
    /\ slot = [r \in Slots |-> Idle]
    /\ last = NoResponse
    /\ hist = EmptyObj

\* ids a client can put in the path: one it got from a create, a well-formed
\* id of no product, a malformed one
PathIds == (1..(nextId - 1)) \cup {FreshId, 0}

Tally(k) == IF k < MaxTally THEN k + 1 ELSE k

\* slot r is the one an arriving request takes: the first that is free
FirstFree(r) ==
    /\ slot[r].pc = "idle"
    /\ \A q \in Slots : q < r => slot[q].pc # "idle"

\* the request (op, id, body) is at the top of its handler in slot r: it
\* arrives now, or "B" has just connected for it
Entry(r, op, id, body) ==
    \/ /\ FirstFree(r)
       /\ variant = "B" => cachedClient # 0
    \/ /\ slot[r].pc = "ready"
       /\ slot[r].op = op /\ slot[r].id = id /\ slot[r].body = body

EntryAcc(r) == slot[r].acc

EntryExisted(r, id) ==
    IF slot[r].pc = "ready" THEN slot[r].existed ELSE id \in DOMAIN store

\* res.status(status).send(...): the response goes out and the slot is free
Respond(r, op, id, status, msg, n, out, acc, existed) ==
    /\ last' = [op |-> op, id |-> id, status |-> status, msg |-> msg,
                n |-> n, out |-> out, acc |-> acc, existed |-> existed]
    /\ slot' = [slot EXCEPT ![r] = Idle]

\* the handler awaits its next store call
Await(r, op, id, body, found, acc, existed) ==
    /\ slot' = [slot EXCEPT ![r] = [pc |-> "found", op |-> op, id |-> id, body |-> body,
                                    found |-> found, acc |-> acc, existed |-> existed]]
    /\ UNCHANGED last

\* connectToDatabase() of "B" with no cached client: new MongoClient, await connect
ColdStart(r, op, id, body) ==
    /\ variant = "B" /\ cachedClient = 0
    /\ FirstFree(r)
    /\ slot' = [slot EXCEPT ![r] = [pc |-> "connecting", op |-> op, id |-> id,
                                    body |-> body, found |-> <<>>, acc |-> {},
                                    existed |-> id \in DOMAIN store]]
    /\ UNCHANGED <<variant, store, nextId, cachedClient, connects, last, hist>>

\* client.connect() resolves: the client is cached and the handler goes on
ConnectDone(r) ==
    /\ slot[r].pc = "connecting"
    /\ connects' = connects + 1
    /\ cachedClient' = connects + 1
    /\ slot' = [slot EXCEPT ![r].pc = "ready", ![r].acc = @ \cup {"connect"}]
    /\ UNCHANGED <<variant, store, nextId, last, hist>>

\* ------------------------------------------------------------------------
\* Handlers.  A handler runs from one store call to the next in one step.
\* ------------------------------------------------------------------------
\* GET /products
List(r) ==
    /\ Entry(r, "list", 0, EmptyObj)
    /\ Respond(r, "list", 0, 200, "products", Cardinality(DOMAIN store), <<>>,
               EntryAcc(r) \cup {"read"}, FALSE)
    /\ UNCHANGED <<variant, store, nextId, cachedClient, connects, hist>>

\* POST /products
Create(r, body) ==
    /\ Entry(r, "create", 0, body)
    /\ LET c == CreateCheck(variant, body)
           \* insertOne keeps the _id of the document it is given, and
           \* generates one when there is none
           given == "_id" \in DOMAIN c.doc
           insertedId == IF given THEN KeyOf(c.doc["_id"]) ELSE nextId
       IN  IF c.status = 400
           THEN /\ Respond(r, "create", 0, 400, "missing or not a number", 0, <<>>,
                           EntryAcc(r), FALSE)
                /\ UNCHANGED <<store, nextId, hist>>
           ELSE IF insertedId \in DOMAIN store
           THEN \* duplicate key: insertOne throws, the catch block answers
                /\ Respond(r, "create", 0, 500, "server error", 0, <<>>,
                           EntryAcc(r) \cup {"write"}, FALSE)
                /\ UNCHANGED <<store, nextId, hist>>
           ELSE /\ given \/ nextId <= MaxProducts
                /\ store' = InsertOne(store, insertedId, WithoutId(c.doc))
                /\ nextId' = IF given THEN nextId ELSE nextId + 1
                /\ hist' = (insertedId :> [stock0 |-> c.doc["stock"].n, upd |-> FALSE,
                                           s200 |-> 0]) @@ hist
                /\ Respond(r, "create", 0, 201, "added", insertedId, <<>>,
                           EntryAcc(r) \cup {"write"}, FALSE)
    /\ UNCHANGED <<variant, cachedClient, connects>>

\* GET /products/:id ("A" has no such route: app.use('*') answers 404)
GetById(r, id) ==
    /\ Entry(r, "get", id, EmptyObj)
    /\ LET acc == EntryAcc(r)
           ex  == EntryExisted(r, id)
           f   == FindOne(store, id)
       IN  IF variant = "A"
           THEN Respond(r, "get", id, 404, "route not found", 0, <<>>, acc, ex)
           ELSE IF ~ObjectIdIsValid(id)
           THEN Respond(r, "get", id, 400, "invalid id", 0, <<>>, acc, ex)
           ELSE IF f = <<>>
           THEN Respond(r, "get", id, 404, "not found", 0, <<>>,
                        acc \cup {"read"}, ex)
           ELSE Respond(r, "get", id, 200, "product", 0, f, acc \cup {"read"}, ex)
    /\ UNCHANGED <<variant, store, nextId, cachedClient, connects, hist>>

\* the history of a product stops at the first update or delete that writes to it
Touched(h, id) ==
    IF id \in DOMAIN h THEN [h EXCEPT ![id] = [stock0 |-> 0, upd |-> TRUE, s200 |-> 0]]
    ELSE h

\* PATCH /products/:id up to and including its first store call
Update(r, id, body) ==
    /\ Entry(r, "update", id, body)
    /\ LET acc == EntryAcc(r)
           ex  == EntryExisted(r, id)
           f   == FindOne(store, id)
           c   == UpdateCheck(variant, body)
       IN  IF ~ObjectIdIsValid(id)
           THEN /\ Respond(r, "update", id, 400, "invalid id", 0, <<>>, acc, ex)
                /\ UNCHANGED <<store, hist>>
           ELSE IF variant = "A"
           THEN /\ UNCHANGED <<store, hist>>
                /\ IF f = <<>>
                   THEN Respond(r, "update", id, 404, "not found", 0, <<>>,
                                acc \cup {"read"}, ex)
                   ELSE IF c.status = 400
                   THEN Respond(r, "update", id, 400, "no valid fields", 0, <<>>,
                                acc \cup {"read"}, ex)
                   ELSE Await(r, "update", id, body, f, acc \cup {"read"}, ex)
           ELSE IF c.status = 400
           THEN /\ Respond(r, "update", id, 400, "no valid fields", 0, <<>>, acc, ex)
                /\ UNCHANGED <<store, hist>>
           ELSE IF id \in DOMAIN store /\ "_id" \in DOMAIN c.set
           THEN \* $set of _id to another value: updateOne throws (_id is
                \* immutable), the catch block answers
                /\ Respond(r, "update", id, 500, "server error", 0, <<>>,
                           acc \cup {"write"}, ex)
                /\ UNCHANGED <<store, hist>>
           ELSE /\ store' = UpdateOneSet(store, id, c.set)
                /\ hist' = Touched(hist, id)
                /\ IF id \in DOMAIN store
                   THEN Respond(r, "update", id, 200, "updated",
                                IF store'[id] = store[id] THEN 0 ELSE 1, <<>>,
                                acc \cup {"write"}, ex)
                   ELSE Respond(r, "update", id, 404, "not found", 0, <<>>,
                                acc \cup {"write"}, ex)
    /\ UNCHANGED <<variant, nextId, cachedClient, connects>>

\* "A": updateOne after the existence check.  sameDate: new Date() is the
\* millisecond already stored in updatedAt.
UpdateWrite(r, sameDate) ==
    /\ slot[r].pc = "found" /\ slot[r].op = "update"
    /\ LET q   == slot[r]
           set == UpdateCheck(variant, q.body).set
           modifiedCount ==
               IF q.id \in DOMAIN store
                  /\ (SetFields(store[q.id], set) # store[q.id] \/ ~sameDate)
               THEN 1 ELSE 0
       IN  /\ store' = UpdateOneSet(store, q.id, set)
           /\ hist' = Touched(hist, q.id)
           /\ IF modifiedCount = 0
              THEN Respond(r, "update", q.id, 400, "no changes", 0, <<>>,
                           q.acc \cup {"write"}, q.existed)
              ELSE Respond(r, "update", q.id, 200, "updated", modifiedCount, <<>>,
                           q.acc \cup {"write"}, q.existed)
    /\ UNCHANGED <<variant, nextId, cachedClient, connects>>

Sold(h, id) ==
    IF id \in DOMAIN h /\ ~h[id].upd THEN [h EXCEPT ![id].s200 = Tally(@)] ELSE h

\* PATCH /products/:id/sell up to and including findOne and the stock check
SellFind(r, id) ==
    /\ Entry(r, "sell", id, EmptyObj)
    /\ LET acc == EntryAcc(r)
           ex  == EntryExisted(r, id)
           product == FindOne(store, id)
       IN  IF ~ObjectIdIsValid(id)
           THEN /\ Respond(r, "sell", id, 400, "invalid id", 0, <<>>, acc, ex)
                /\ UNCHANGED hist
           ELSE IF product = <<>>
           THEN /\ Respond(r, "sell", id, 404, "not found", 0, <<>>,
                           acc \cup {"read"}, ex)
                /\ UNCHANGED hist
           ELSE IF LeqZero(Get(product[1], "stock"))
           THEN /\ Respond(r, "sell", id, 400, "out of stock", 0, <<>>,
                           acc \cup {"read"}, ex)
                /\ UNCHANGED hist
           ELSE /\ Await(r, "sell", id, EmptyObj, product, acc \cup {"read"}, ex)
                /\ UNCHANGED hist
    /\ UNCHANGED <<variant, store, nextId, cachedClient, connects>>

\* the $set part of the sell update
SellSet(v) == IF v = "A" THEN ("lastSold" :> Date) ELSE EmptyObj

\* the status the sell handler sends after updateOne
SellStatus(v, modifiedCount) == IF v = "A" /\ modifiedCount = 0 THEN 400 ELSE 200

\* updateOne({_id}, {$inc: {stock: -1}}) of the sell handler and its response
SellWrite(r) ==
    /\ slot[r].pc = "found" /\ slot[r].op = "sell"
    /\ LET q == slot[r]
           modifiedCount == IF q.id \in DOMAIN store THEN 1 ELSE 0
           status == SellStatus(variant, modifiedCount)
       IN  /\ store' = UpdateOneInc(store, q.id, SellSet(variant))
           /\ hist' = IF status = 200 THEN Sold(hist, q.id) ELSE hist
           /\ Respond(r, "sell", q.id, status,
                      IF status = 200 THEN "sold" ELSE "update failed",
                      modifiedCount, <<>>, q.acc \cup {"write"}, q.existed)
    /\ UNCHANGED <<variant, nextId, cachedClient, connects>>

\* DELETE /products/:id up to and including its first store call
Delete(r, id) ==
    /\ Entry(r, "delete", id, EmptyObj)
    /\ LET acc == EntryAcc(r)
           ex  == EntryExisted(r, id)
           deletedCount == IF id \in DOMAIN store THEN 1 ELSE 0
       IN  IF ~ObjectIdIsValid(id)
           THEN /\ Respond(r, "delete", id, 400, "invalid id", 0, <<>>, acc, ex)
                /\ UNCHANGED <<store, hist>>
           ELSE IF variant = "A"
           THEN /\ UNCHANGED <<store, hist>>
                /\ IF FindOne(store, id) = <<>>
                   THEN Respond(r, "delete", id, 404, "not found", 0, <<>>,
                                acc \cup {"read"}, ex)
                   ELSE Await(r, "delete", id, EmptyObj, FindOne(store, id),
                              acc \cup {"read"}, ex)
           ELSE /\ store' = DeleteOne(store, id)
                /\ hist' = Touched(hist, id)
                /\ IF deletedCount = 0
                   THEN Respond(r, "delete", id, 404, "not found", 0, <<>>,
                                acc \cup {"write"}, ex)
                   ELSE Respond(r, "delete", id, 200, "deleted", deletedCount,
                                <<>>, acc \cup {"write"}, ex)
    /\ UNCHANGED <<variant, nextId, cachedClient, connects>>

\* "A": deleteOne after the existence check
DeleteWrite(r) ==
    /\ slot[r].pc = "found" /\ slot[r].op = "delete"
    /\ LET q == slot[r]
           deletedCount == IF q.id \in DOMAIN store THEN 1 ELSE 0
       IN  /\ store' = DeleteOne(store, q.id)
           /\ hist' = Touched(hist, q.id)
           /\ IF deletedCount = 0
              THEN Respond(r, "delete", q.id, 400, "delete failed", 0, <<>>,
                           q.acc \cup {"write"}, q.existed)
              ELSE Respond(r, "delete", q.id, 200, "deleted", deletedCount, <<>>,
                           q.acc \cup {"write"}, q.existed)
    /\ UNCHANGED <<variant, nextId, cachedClient, connects>>

\* ------------------------------------------------------------------------
\* Specifications
\* ------------------------------------------------------------------------
Ops == {"list", "create", "get", "update", "sell", "delete"}

\* a request that arrives while "B" has no client yet
Cold(r, creates, updates) ==
    \E op \in Ops :
        \E id \in (IF op \in {"list", "create"} THEN {0} ELSE PathIds) :
            \E body \in (IF op = "create" THEN creates
                         ELSE IF op = "update" THEN updates ELSE {EmptyObj}) :
                ColdStart(r, op, id, body)

\* one step of the request of slot r, its body drawn from creates / updates
Step(r, creates, updates) ==
    \/ Cold(r, creates, updates)
    \/ ConnectDone(r)
    \/ List(r)
    \/ \E body \in creates : Create(r, body)
    \/ \E id \in PathIds : GetById(r, id)
    \/ \E id \in PathIds : \E body \in updates : Update(r, id, body)
    \/ \E sameDate \in BOOLEAN : UpdateWrite(r, sameDate)
    \/ \E id \in PathIds : SellFind(r, id)
    \/ SellWrite(r)
    \/ \E id \in PathIds : Delete(r, id)
    \/ DeleteWrite(r)

\* requests overlap freely
Next == \E r \in Slots : Step(r, FewCreateBodies, FewUpdateBodies)

Spec == Init /\ [][Next]_vars

\* no request is in flight
Quiet == \A r \in Slots : slot[r].pc = "idle"

\* one request at a time: slot r may step when its request is the one in
\* flight, or no request is
Turn(r) == Quiet \/ slot[r].pc # "idle"

NextSeq ==
    \E r \in Slots :
        \/ Turn(r) /\ Cold(r, SeqCreateBodies, SeqUpdateBodies)
        \/ Turn(r) /\ ConnectDone(r)
        \/ Turn(r) /\ List(r)
        \/ Turn(r) /\ \E body \in SeqCreateBodies : Create(r, body)
        \/ Turn(r) /\ \E id \in PathIds : GetById(r, id)
        \/ Turn(r) /\ \E id \in PathIds : \E body \in SeqUpdateBodies : Update(r, id, body)
        \/ Turn(r) /\ \E sameDate \in BOOLEAN : UpdateWrite(r, sameDate)
        \/ Turn(r) /\ \E id \in PathIds : SellFind(r, id)
        \/ Turn(r) /\ SellWrite(r)
        \/ Turn(r) /\ \E id \in PathIds : Delete(r, id)
        \/ Turn(r) /\ DeleteWrite(r)

SpecSeq == Init /\ [][NextSeq]_vars

\* ------------------------------------------------------------------------
\* Properties
\* ------------------------------------------------------------------------
StockOf(id) == Get(store[id], "stock").n
PriceOf(id) == Get(store[id], "price").n

\* C1: a product created with stock >= 0 and changed since only by sell
\* requests never has a stock below 0, however the sells interleave.
C1_StockNeverNegative ==
    \A id \in DOMAIN store :
        (~hist[id].upd /\ hist[id].stock0 >= 0) => StockOf(id) >= 0

\* C2: of the sell requests on a product created with stock 1 (and changed
\* by nothing but sells) exactly one is answered 200; any other is answered
\* 400 out of stock; the stock ends at 0.
C2_OneSaleOfLastItem ==
    \A id \in DOMAIN store :
        (~hist[id].upd /\ hist[id].stock0 = 10) =>
            /\ hist[id].s200 <= 1
            /\ StockOf(id) = 10 - 10 * hist[id].s200
            /\ (last.op = "sell" /\ last.id = id /\ last.status # 200) =>
                   (last.status = 400 /\ last.msg = "out of stock" /\ hist[id].s200 = 1)

\* C3: get-by-id, update and delete answer a malformed id with 400 without
\* having connected to, read or written the store.
C3_BadIdRejectedBeforeStore ==
    (last.op \in {"get", "update", "delete"} /\ ~ObjectIdIsValid(last.id)) =>
        (last.status = 400 /\ last.acc = {})

\* C4: get-by-id, update and delete answer a well-formed id of no stored
\* product with 404, whatever the body.
C4_MissingIdIs404 ==
    (last.op \in {"get", "update", "delete"} /\ ObjectIdIsValid(last.id) /\ ~last.existed) =>
        last.status = 404

\* C5: requests one at a time: a delete of a stored product answers 200 with
\* deletedCount 1 and the product is gone; a delete of an id that is not
\* stored (so the second delete of a product) answers 404; a get-by-id of an
\* id that is not stored never answers 200.
C5_DeleteTwice ==
    /\ (last.op = "delete" /\ ObjectIdIsValid(last.id)) =>
          IF last.existed
          THEN last.status = 200 /\ last.n = 1 /\ last.id \notin DOMAIN store
          ELSE last.status = 404 /\ last.n = 0
    /\ (last.op = "get" /\ last.id \notin DOMAIN store) => last.status # 200

\* the second delete of a product that was created and deleted has answered 404
C5_Witness ==
    /\ last.op = "delete" /\ last.status = 404
    /\ last.id \in DOMAIN hist /\ last.id \notin DOMAIN store

\* every field of the update is undefined, null, '' or not an allowed field
AllInvalid(updates) ==
    \A k \in DOMAIN updates :
        \/ updates[k] \in {Undefined, Null, Str(<<>>)}
        \/ k \notin {"category", "model", "price", "stock"}

AllInvalidBodies == {b \in UpdateBodies : AllInvalid(b)}

\* only a step that leaves one of these can be a step of a request of method op
StepOf(r, op) == slot[r].op = op \/ slot'[r].op = op \/ last'.op = op

\* this step answers the request of slot r with 400 and changes no document
Refused(r) == slot'[r].pc = "idle" /\ last'.status = 400 /\ store' = store

\* C6: an update of a stored product whose field map is empty or all invalid
\* is answered 400 by its validation and leaves the collection as it was.
C6_InvalidUpdateIs400 ==
    [][\A r \in Slots : StepOf(r, "update") =>
        /\ \A id \in DOMAIN store : \A body \in AllInvalidBodies :
              Update(r, id, body) => Refused(r)
        /\ \A sameDate \in BOOLEAN :
              (UpdateWrite(r, sameDate) /\ slot[r].id \in DOMAIN store
                  /\ AllInvalid(slot[r].body)) => Refused(r)]_vars

\* a creation payload with every required field present, the price and the
\* stock reading as numbers
ValidPayload(product) ==
    /\ ~Falsy(Get(product, "category")) /\ ~Falsy(Get(product, "model"))
    /\ ~Falsy(Get(product, "price")) /\ ~IsNaN(ParseFloat(Get(product, "price")))
    /\ Get(product, "stock") # Undefined /\ ~IsNaN(ParseInt(Get(product, "stock")))

ValidBodies == {b \in CreateBodies : ValidPayload(b)}

\* C7: a valid creation payload is answered 201 with the generated id, the
\* stored price and stock being the float and the integer read from the
\* payload, and the get-by-id that follows the create answers 200 with that
\* document.
C7_CreateThenGet ==
    [][\A r \in Slots :
        /\ StepOf(r, "create") =>
              \A body \in ValidBodies :
                  Create(r, body) =>
                      /\ last'.status = 201 /\ last'.n \in DOMAIN store'
                      /\ Get(store'[last'.n], "price") = ParseFloat(Get(body, "price"))
                      /\ Get(store'[last'.n], "stock") = ParseInt(Get(body, "stock"))
        /\ StepOf(r, "get") =>
              \A id \in DOMAIN store :
                  (GetById(r, id) /\ last.op = "create" /\ last.status = 201 /\ last.n = id)
                      => (last'.status = 200 /\ last'.out = <<store[id]>>)]_vars

\* a creation payload with stock 0 or "0" and the other required fields good
ZeroStockPayload(product) ==
    /\ Get(product, "stock") \in {Num(0), C("0")}
    /\ ~Falsy(Get(product, "category")) /\ ~Falsy(Get(product, "model"))
    /\ ~Falsy(Get(product, "price")) /\ ~IsNaN(ParseFloat(Get(product, "price")))

ZeroStockBodies == {b \in CreateBodies : ZeroStockPayload(b)}

BadNumbers(product) ==
    \/ Get(product, "price") = Undefined \/ IsNaN(ParseFloat(Get(product, "price")))
    \/ Get(product, "stock") = Undefined \/ IsNaN(ParseInt(Get(product, "stock")))

BadNumberBodies == {b \in CreateBodies : BadNumbers(b)}

\* C9: a create whose price or stock is absent or not a number answers 400
\* and inserts nothing.
C9_BadNumbersRejected ==
    [][\A r \in Slots : StepOf(r, "create") =>
          \A body \in BadNumberBodies :
              Create(r, body) =>
                  (last'.status = 400 /\ store' = store /\ nextId' = nextId)]_vars

\* the update carries a price or stock that is not a number or is negative
BadUpdate(updates) ==
    \E k \in {"price", "stock"} \cap DOMAIN updates :
        /\ updates[k] \notin {Null, Str(<<>>)}
        /\ IsNaN(ToNumber(updates[k])) \/ ToNumber(updates[k]).n < 0

BadUpdateBodies == {b \in UpdateBodies : BadUpdate(b)}

\* no price or stock that was not negative is negative after the step
StaysNonNegative ==
    \A id \in DOMAIN store \cap DOMAIN store' : \A k \in {"price", "stock"} :
        Get(store[id], k).n >= 0 => Get(store'[id], k).n >= 0

\* C10: an update of a stored product that carries a non-numeric or negative
\* price or stock is answered 400 by its validation and changes nothing; so
\* no update makes a price or a stock negative.  (The claim says the same of
\* creates; this is the part about updates.)
C10_NegativeUpdateRejected ==
    [][\A r \in Slots : StepOf(r, "update") =>
        /\ \A id \in DOMAIN store : \A body \in BadUpdateBodies :
              Update(r, id, body) => Refused(r)
        /\ \A sameDate \in BOOLEAN :
              (UpdateWrite(r, sameDate) /\ slot[r].id \in DOMAIN store
                  /\ BadUpdate(slot[r].body)) => Refused(r)
        /\ StaysNonNegative]_vars

\* C13: the lazily connecting server completes client.connect() at most
\* once, whatever the number of requests and however they interleave.
C13_ConnectsOnce ==
    variant = "B" => connects <= 1

\* C15: a delete of a well-formed id, however it interleaves with other
\* deletes of that id, is answered 200 with deletedCount 1 or 404, never 400;
\* the product is absent once any delete of it has been answered.
C15_ConcurrentDeletes ==
    (last.op = "delete" /\ ObjectIdIsValid(last.id)) =>
        /\ last.status \in {200, 404}
        /\ last.status = 200 => last.n = 1
        /\ last.id \notin DOMAIN store

\* this step is the sell handler of slot r sending its response for product id
SellAnswers(r, id) ==
    \/ SellFind(r, id) /\ slot'[r].pc = "idle"
    \/ SellWrite(r) /\ slot[r].id = id

\* this step takes exactly one unit from the stock of the stored product id
\* and changes no other document
DecrementsByOne(id) ==
    /\ id \in DOMAIN store /\ id \in DOMAIN store'
    /\ StockOf(id) > 0
    /\ Get(store'[id], "stock").n = StockOf(id) - 10
    /\ \A k \in DOMAIN store \ {id} : k \in DOMAIN store' /\ store'[k] = store[k]

\* C14: a sell request is answered 200 exactly when its own step took one
\* unit from a positive stock of the stored product; so it is not answered
\* 200 once the product was deleted or its stock reached 0 after the
\* handler's read, and for a product that no update or delete has written
\* to, the 200 responses to sells number the creation stock less the stock.
C14_SoldIffDecremented ==
    [][/\ \A r \in Slots : StepOf(r, "sell") =>
              \A id \in PathIds :
                  SellAnswers(r, id) => (last'.status = 200 <=> DecrementsByOne(id))
       /\ \A id \in DOMAIN store' :
              (~hist'[id].upd /\ hist'[id].s200 < MaxTally) =>
                  10 * hist'[id].s200 = hist'[id].stock0 - Get(store'[id], "stock").n]_vars

\* the update names field k with a value that is there to be set
Named(updates, k) ==
    k \in DOMAIN updates /\ updates[k] \notin {Undefined, Null, Str(<<>>)}

\* this step writes the update body to the stored product id, and to nothing
\* else: updatedAt is stamped; price and stock are set, when named with a
\* value that reads as a number >= 0, to that number; any other field that
\* changes is a field the body names
MergedInto(id, body) ==
    /\ id \in DOMAIN store /\ id \in DOMAIN store'
    /\ DOMAIN store' = DOMAIN store
    /\ \A k \in DOMAIN store \ {id} : store'[k] = store[k]
    /\ Get(store'[id], "updatedAt") = Date
    /\ \A k \in {"price", "stock"} :
          (Named(body, k) /\ ~IsNaN(ToNumber(body[k])) /\ ToNumber(body[k]).n >= 0
              /\ ToNumber(body[k]).n % 10 = 0) =>
                 Get(store'[id], k) = ToNumber(body[k])
    /\ \A k \in (DOMAIN store[id] \cup DOMAIN store'[id]) \ {"updatedAt"} :
          Get(store'[id], k) # Get(store[id], k) => k \in DOMAIN body

\* C12: an update answered 200 has set the valid fields its body names to
\* their coerced values and stamped updatedAt, and has changed no other
\* field of the document and no other document.
C12_UpdateFrame ==
    [][\A r \in Slots : StepOf(r, "update") =>
        /\ \A id \in PathIds : \A body \in UpdateBodies :
              (Update(r, id, body) /\ slot'[r].pc = "idle" /\ last'.status = 200)
                  => MergedInto(id, body)
        /\ \A sameDate \in BOOLEAN :
              (UpdateWrite(r, sameDate) /\ last'.status = 200)
                  => MergedInto(slot[r].id, slot[r].body)]_vars

\* C11: every product gets its id from the store when it is created, and
\* that id is one no product has or has had: a step adds a key to the
\* collection only as the id the store generates next, which is then used
\* up.  (So no body picks an id, brings back the id of a deleted product,
\* or moves a stored product to another id.)
C11_IdsGeneratedOnce ==
    [][\A id \in DOMAIN store' \ DOMAIN store :
          id = nextId /\ nextId' > nextId /\ id \notin DOMAIN hist]_vars

====
